---------------------------- MODULE Spec2Model ----------------------------
(***************************************************************************)
(* SulvionPiGUI: grid placement (core/grid.py, core/app.py), the drag and  *)
(* resize gesture handlers (core/app.py make_draggable / make_resizable)   *)
(* and the debug overlay (core/debug.py).                                  *)
(*                                                                         *)
(* Python floats are modelled as exact rationals [n |-> num, d |-> den]    *)
(* in lowest terms.  The scaling factors and grid inputs used below are    *)
(* chosen so that the IEEE results of the source's expressions truncate    *)
(* and round to the same integers as the exact values.                     *)
(***************************************************************************)
EXTENDS Integers, Sequences, FiniteSets, TLC

VARIABLES
    gtp,          \* App.gtp / GridSystem.gtp
    size_grid,    \* App.size_grid = <<cols, rows>>
    scaling,      \* what ctk.ScalingTracker.get_window_scaling answers now
    widget,       \* the placed backend element (logical bounds as passed to place/configure)
    dstate,       \* make_draggable's closure dict `state`
    rstate,       \* make_resizable's closure dict `state`
    bound,        \* which handler sets are bound: drag on the element, resize (the handle
                  \* exists), and the handler set bound on the handle's own surface
    pointer,      \* pointer button: "up", or the target it went down on: "widget" / "child" /
                  \* "handle"
    clicks,       \* number of times widget.invoke() has run
    last,         \* the handler that ran last and the exception that escaped it
    ngestures,    \* number of presses delivered so far
    far,          \* a move of the current gesture was more than 3 logical px from the press point on some axis
    args,         \* arguments of the last GridSystem / App placement call
    result,       \* value returned by the last GridSystem call or snap
    overlay,      \* DebugLayer: canvas, its items, pending after() callbacks
    field,        \* the entry made by App.number: its content, bounds and what the filter did
    press_scaling \* the scaling factor the host reported at the press of the gesture in progress

vars == <<gtp, size_grid, scaling, widget, dstate, rstate, bound, pointer, clicks,
          last, ngestures, far, args, result, overlay, field, press_scaling>>

-----------------------------------------------------------------------------
(* Exact rational arithmetic standing for Python float arithmetic.          *)

Abs(k) == IF k < 0 THEN -k ELSE k

RECURSIVE GCD(_, _)
GCD(a, b) == IF b = 0 THEN a ELSE GCD(b, a % b)

\* the rational n/d (d # 0) in lowest terms with a positive denominator
Rat(n, d) ==
    LET s == IF d < 0 THEN -1 ELSE 1
        g == GCD(Abs(n), Abs(d))
    IN  [n |-> (s * n) \div g, d |-> (s * d) \div g]

I(k) == [n |-> k, d |-> 1]

RAdd(a, b) == Rat(a.n * b.d + b.n * a.d, a.d * b.d)
RSub(a, b) == Rat(a.n * b.d - b.n * a.d, a.d * b.d)
RMul(a, b) == Rat(a.n * b.n, a.d * b.d)
RDiv(a, b) == Rat(a.n * b.d, a.d * b.n)
RLt(a, b)  == a.n * b.d < b.n * a.d
RAbs(a)    == [n |-> Abs(a.n), d |-> a.d]
RMaxUnclamped(a, b) == b
\* Python max(a, b)
RMax(a, b) == IF RLt(a, b) THEN b ELSE a

\* Python max(a, b) on integers
Max2(a, b) == IF a < b THEN b ELSE a

intFloor(r) == r.n \div r.d
\* Python int(float): truncation toward zero
int(r) == IF r.n >= 0 THEN r.n \div r.d ELSE -((-r.n) \div r.d)

roundDown(r) == r.n \div r.d
roundHalfUp(r) == (2 * r.n + r.d) \div (2 * r.d)
\* Python round(float): nearest integer, exact halves go to the even integer
round(r) ==
    LET f == r.n \div r.d
        twice == 2 * (r.n - f * r.d)
    IN  IF twice < r.d THEN f
        ELSE IF twice > r.d THEN f + 1
        ELSE IF f % 2 = 0 THEN f ELSE f + 1

\* Tk screen distance given as a float: nearest pixel, halves away from zero
TkPixels(r) ==
    IF r.n >= 0 THEN (2 * r.n + r.d) \div (2 * r.d)
    ELSE -((2 * (-r.n) + r.d) \div (2 * r.d))

-----------------------------------------------------------------------------
(* core/grid.py                                                             *)

to_pixels_one_based(grid_pos) ==
    <<int(RMul(RSub(grid_pos[1], I(1)), I(gtp))), int(RMul(RSub(grid_pos[2], I(1)), I(gtp)))>>
to_pixels_clamped(grid_pos) ==
    <<Max2(0, int(RMul(grid_pos[1], I(gtp)))), Max2(0, int(RMul(grid_pos[2], I(gtp))))>>
to_pixels_floor(grid_pos) == <<intFloor(grid_pos[1]) * gtp, intFloor(grid_pos[2]) * gtp>>
\* GridSystem.to_pixels: int(component * gtp) per axis
to_pixels(grid_pos) ==
    <<int(RMul(grid_pos[1], I(gtp))), int(RMul(grid_pos[2], I(gtp)))>>

\* GridSystem.dim_to_pixels
dim_to_pixels(grid_dim) ==
    <<int(RMul(grid_dim[1], I(gtp))), int(RMul(grid_dim[2], I(gtp)))>>

\* GridSystem.get_window_size
get_window_size(sz) == dim_to_pixels(sz)


-----------------------------------------------------------------------------
(* Bounds and input sets                                                    *)

MaxGestures == 2          \* presses delivered in one run
MaxGtp == 6               \* gtp ranges over 1..MaxGtp (and 50) in the conversion runs
MaxCell == 3              \* integer grid components range over -MaxCell..MaxCell

\* scaling factors the host can report: 1.0 and 1.5
Scalings == {I(1), Rat(3, 2)}

\* gtp of the gesture runs (App's default)
DefaultGtp == 50

\* pointer positions (root coordinates) of press and move events
PressPts == {<<60, 60>>}
MoveX == {-140, 63, 64, 137, 160}
MoveY == {-140, 63, 158, 160}

\* grid components a caller may pass: integers and a few non-integers
FracCells == {Rat(19, 10), Rat(21, 10), Rat(1, 2), Rat(-3, 2)}
GridCells == {I(k) : k \in -MaxCell..MaxCell} \cup FracCells

-----------------------------------------------------------------------------
(* The backend element (backend/customtk.py create_button / create_label).  *)
(* x, y, w, h are the logical values last passed to place() / configure();  *)
(* the toolkit shows the element at those values times the scaling factor.  *)

NoWidget ==
    [created |-> FALSE, alive |-> FALSE, invoke |-> FALSE, on_top |-> FALSE,
     x |-> I(0), y |-> I(0), w |-> I(0), h |-> I(0)]

\* BackendCustomTK.create_button: CTkButton(width=w, height=h); place(x=x, y=y)
create_button(x, y, w, h) ==
    [created |-> TRUE, alive |-> TRUE, invoke |-> TRUE, on_top |-> TRUE,
     x |-> I(x), y |-> I(y), w |-> I(w), h |-> I(h)]

\* BackendCustomTK.create_label: CTkLabel has no invoke()
create_label(x, y, w, h) ==
    [created |-> TRUE, alive |-> TRUE, invoke |-> FALSE, on_top |-> TRUE,
     x |-> I(x), y |-> I(y), w |-> I(w), h |-> I(h)]

\* widget.winfo_x() etc.: physical pixels
winfo_x == TkPixels(RMul(widget.x, scaling))
winfo_y == TkPixels(RMul(widget.y, scaling))
winfo_width == TkPixels(RMul(widget.w, scaling))
winfo_height == TkPixels(RMul(widget.h, scaling))

\* the element's logical pixel bounds as the handlers read them
LiveX == RDiv(I(winfo_x), scaling)
LiveY == RDiv(I(winfo_y), scaling)
LiveW == RDiv(I(winfo_width), scaling)
LiveH == RDiv(I(winfo_height), scaling)

\* Button.get_current_coord() (and the same method of every other wrapper): what
\* a caller can read of an element's placement
get_current_coord == <<winfo_x, winfo_y>>

place_xy_and_size(wd, x, y) == [wd EXCEPT !.x = x, !.y = y, !.w = I(gtp), !.h = I(gtp)]
\* widget.place(x=..., y=...): only the position is passed
place_xy(wd, x, y) == [wd EXCEPT !.x = x, !.y = y]

-----------------------------------------------------------------------------
(* core/app.py: placement                                                   *)

\* DebugLayer.__init__: no canvas yet, nothing scheduled
NewOverlay(show_coords, bgcolor, theme) ==
    [canvas |-> 0, ncreated |-> 0, live |-> {}, lowered |-> FALSE,
     vlines |-> {}, hlines |-> {}, labels |-> {}, bg |-> "", font_size |-> 0,
     pending_draw |-> 0, pending_lower |-> 0, ndraws |-> 0, lowered_id |-> 0,
     canv_w |-> 0, canv_h |-> 0, spacing |-> I(0),
     show_coords |-> show_coords, bgcolor |-> bgcolor, theme |-> theme]

\* App(show_grid=False): no DebugLayer
NoOverlay == NewOverlay(FALSE, "None", "Dark")
NoArgs == [pos |-> <<I(0), I(0)>>, size |-> <<I(0), I(0)>>]

\* no App.number entry exists
NoField ==
    [created |-> FALSE, min |-> 0, max |-> 0, typed |-> <<>>, text |-> <<>>,
     fired |-> FALSE, value |-> 0, nkeys |-> 0]

Ran(op) == [op |-> op, exc |-> "none"]
Raised(op, exc) == [op |-> op, exc |-> exc]

IntListNoTrunc(v) == v
\* pos = [int(p) for p in pos]
IntList(v) == <<I(int(v[1])), I(int(v[2]))>>

\* the pixel bounds App.btn / App.label hand to the backend
PlaceBounds(pos, size) ==
    LET px_pos == to_pixels(IntList(pos))
        px_size == dim_to_pixels(IntList(size))
    IN  <<px_pos[1], px_pos[2], px_size[1], px_size[2]>>

\* App.btn(pos, size)
btn(pos, size) ==
    /\ ~widget.created
    /\ last = Ran("init")
    /\ LET b == PlaceBounds(pos, size)
       IN  /\ widget' = create_button(b[1], b[2], b[3], b[4])
           /\ result' = <<b[3], b[4]>>
    /\ args' = [pos |-> pos, size |-> size]
    /\ last' = Ran("btn")
    /\ UNCHANGED <<gtp, size_grid, scaling, dstate, rstate, bound, pointer, clicks,
                   ngestures, far, overlay, field, press_scaling>>

\* App.label(pos, size)
label(pos, size) ==
    /\ ~widget.created
    /\ last = Ran("init")
    /\ LET b == PlaceBounds(pos, size)
       IN  /\ widget' = create_label(b[1], b[2], b[3], b[4])
           /\ result' = <<b[3], b[4]>>
    /\ args' = [pos |-> pos, size |-> size]
    /\ last' = Ran("label")
    /\ UNCHANGED <<gtp, size_grid, scaling, dstate, rstate, bound, pointer, clicks,
                   ngestures, far, overlay, field, press_scaling>>

-----------------------------------------------------------------------------
(* core/app.py: make_draggable                                              *)

\* `if abs(dx) > 3 or abs(dy) > 3`
MoveThreshold == 3

\* state = {"start_root_x": 0, "start_root_y": 0, "start_w_x": 0, "start_w_y": 0, "moved": False}
DragState0 ==
    [start_root_x |-> 0, start_root_y |-> 0, start_w_x |-> I(0), start_w_y |-> I(0),
     moved |-> FALSE, has_scaling |-> FALSE, scaling |-> I(1)]

\* state = {"start_root_x": 0, "start_root_y": 0, "start_w": 0, "start_h": 0}
ResizeState0 ==
    [start_root_x |-> 0, start_root_y |-> 0, start_w |-> I(0), start_h |-> I(0)]

\* nothing bound, no handle
NoBindings == [drag |-> FALSE, resize |-> FALSE, handle |-> "none"]

\* App.make_draggable(widget_wrapper): creates the closure state and binds the handlers
\* on the element and, through bind_recursive, on every descendant it has at that
\* moment.  A handle made earlier by make_resizable is such a descendant: the plain
\* bind() on the handle's inner canvas replaces the resize handlers bound there.
make_draggable ==
    /\ widget.created
    /\ ~bound.drag
    /\ pointer = "up"
    /\ bound' = [bound EXCEPT !.drag = TRUE,
                              !.handle = IF bound.resize THEN "drag" ELSE @]
    /\ dstate' = DragState0
    /\ last' = Ran("make_draggable")
    /\ UNCHANGED <<gtp, size_grid, scaling, widget, rstate, pointer, clicks,
                   ngestures, far, args, result, overlay, field, press_scaling>>

StateScalingLive == IF dstate.has_scaling THEN scaling ELSE I(1)
\* state.get("scaling", 1.0)
StateScaling == IF dstate.has_scaling THEN dstate.scaling ELSE I(1)

ExceedsGE(d) == ~RLt(RAbs(d), I(MoveThreshold))
\* abs(d) > 3
Exceeds(d) == RLt(I(MoveThreshold), RAbs(d))

\* a pointer displacement of delta physical pixels is more than 3 logical pixels
\* at scaling factor sc
Beyond(delta, sc) == Abs(delta) * sc.d > MoveThreshold * sc.n

DragBoundOnRootOnly(tgt) == tgt = "widget" /\ bound.drag
moved_kept(prev) == prev
\* state["moved"] = False
moved_at_press(prev) == FALSE

\* the drag handlers are bound on the surface tgt: the element itself, "child" (a
\* descendant the element has from its creation, such as a button's inner canvas
\* and text label), or the resize handle
DragBoundOn(tgt) ==
    IF tgt \in {"widget", "child"} THEN bound.drag ELSE bound.handle = "drag"

\* make_draggable.on_press(event) for a press on tgt (the element or the handle);
\* ok = the scaling provider answers
drag_on_press(tgt, ev, ok) ==
    /\ DragBoundOn(tgt)
    /\ widget.created
    /\ pointer = "up"
    /\ ngestures < MaxGestures
    /\ pointer' = tgt
    /\ ngestures' = ngestures + 1
    /\ far' = FALSE
    /\ press_scaling' = scaling
    /\ LET s1 == [dstate EXCEPT !.start_root_x = ev[1], !.start_root_y = ev[2]]
           s2 == [s1 EXCEPT !.scaling = scaling, !.has_scaling = TRUE]
       IN  IF ~ok
           THEN /\ dstate' = s1
                /\ last' = Raised("drag.on_press", "ScalingError")
                /\ UNCHANGED widget
           ELSE IF ~widget.alive
           THEN /\ dstate' = s2
                /\ last' = Raised("drag.on_press", "TclError")
                /\ UNCHANGED widget
           ELSE /\ dstate' = [s2 EXCEPT !.start_w_x = LiveX, !.start_w_y = LiveY,
                                        !.moved = moved_at_press(@)]
                /\ widget' = [widget EXCEPT !.on_top = TRUE]
                /\ last' = Ran("drag.on_press")
    /\ UNCHANGED <<gtp, size_grid, scaling, rstate, bound, clicks, args, result, overlay, field>>

moved_latest(prev, exceeded) == exceeded
\* if abs(dx) > 3 or abs(dy) > 3: state["moved"] = True
moved_on_motion(prev, exceeded) == IF exceeded THEN TRUE ELSE prev

new_pos_snapped(start, d) == I(round(RDiv(RAdd(start, d), I(gtp))) * gtp)
\* new_x = state["start_w_x"] + dx
new_pos(start, d) == RAdd(start, d)

\* make_draggable.on_motion(event)
drag_on_motion(ev) ==
    /\ pointer # "up" /\ DragBoundOn(pointer)
    /\ LET dx == RDiv(I(ev[1] - dstate.start_root_x), StateScaling)
           dy == RDiv(I(ev[2] - dstate.start_root_y), StateScaling)
           new_x == new_pos(dstate.start_w_x, dx)
           new_y == new_pos(dstate.start_w_y, dy)
       IN  /\ dstate' = [dstate EXCEPT
                             !.moved = moved_on_motion(@, Exceeds(dx) \/ Exceeds(dy))]
           /\ IF widget.alive
              THEN /\ widget' = place_xy(widget, new_x, new_y)
                   /\ last' = Ran("drag.on_motion")
              ELSE /\ last' = Raised("drag.on_motion", "TclError")
                   /\ UNCHANGED widget
    /\ far' = (far \/ Beyond(ev[1] - dstate.start_root_x, StateScaling)
                    \/ Beyond(ev[2] - dstate.start_root_y, StateScaling))
    /\ UNCHANGED <<gtp, size_grid, scaling, rstate, bound, pointer, clicks,
                   ngestures, args, result, overlay, field, press_scaling>>

SnapDown(v) == roundDown(RDiv(v, I(gtp))) * gtp
\* round(curr / self.gtp) * self.gtp
Snap(v) == round(RDiv(v, I(gtp))) * gtp

\* make_draggable.on_release(event)
drag_on_release(ok) ==
    /\ pointer # "up" /\ DragBoundOn(pointer)
    /\ pointer' = "up"
    /\ far' = FALSE
    /\ press_scaling' = I(1)
    /\ IF ~dstate.moved
       THEN /\ clicks' = IF widget.invoke THEN clicks + 1 ELSE clicks
            /\ last' = Ran("drag.on_release")
            /\ UNCHANGED widget
       ELSE IF ~ok
       THEN /\ last' = Raised("drag.on_release", "ScalingError")
            /\ UNCHANGED <<widget, clicks>>
       ELSE IF ~widget.alive
       THEN /\ last' = Raised("drag.on_release", "TclError")
            /\ UNCHANGED <<widget, clicks>>
       ELSE /\ widget' = place_xy(widget, I(Snap(LiveX)), I(Snap(LiveY)))
            /\ last' = Ran("drag.on_release")
            /\ UNCHANGED clicks
    /\ UNCHANGED <<gtp, size_grid, scaling, dstate, rstate, bound, ngestures,
                   args, result, overlay, field>>

-----------------------------------------------------------------------------
(* core/app.py: make_resizable                                              *)

\* App.make_resizable(widget_wrapper): creates the handle, its closure state and bindings
make_resizable ==
    /\ widget.created
    /\ ~bound.resize
    /\ pointer = "up"
    /\ bound' = [bound EXCEPT !.resize = TRUE, !.handle = "resize"]
    /\ rstate' = ResizeState0
    /\ last' = Ran("make_resizable")
    /\ UNCHANGED <<gtp, size_grid, scaling, widget, dstate, pointer, clicks,
                   ngestures, far, args, result, overlay, field, press_scaling>>

\* make_resizable.on_press(event)
resize_on_press(ev, ok) ==
    /\ bound.handle = "resize"
    /\ widget.created
    /\ pointer = "up"
    /\ ngestures < MaxGestures
    /\ pointer' = "handle"
    /\ ngestures' = ngestures + 1
    /\ far' = FALSE
    /\ press_scaling' = scaling
    /\ LET s1 == [rstate EXCEPT !.start_root_x = ev[1], !.start_root_y = ev[2]]
       IN  IF ~ok
           THEN /\ rstate' = s1
                /\ last' = Raised("resize.on_press", "ScalingError")
                /\ UNCHANGED widget
           ELSE IF ~widget.alive
           THEN /\ rstate' = s1
                /\ last' = Raised("resize.on_press", "TclError")
                /\ UNCHANGED widget
           ELSE /\ rstate' = [s1 EXCEPT !.start_w = LiveW, !.start_h = LiveH]
                /\ widget' = [widget EXCEPT !.on_top = TRUE]
                /\ last' = Ran("resize.on_press")
    /\ UNCHANGED <<gtp, size_grid, scaling, dstate, bound, clicks, args, result, overlay, field>>

\* make_resizable.on_motion(event)
resize_on_motion(ev, ok) ==
    /\ pointer = "handle" /\ bound.handle = "resize"
    /\ LET dx == RDiv(I(ev[1] - rstate.start_root_x), scaling)
           dy == RDiv(I(ev[2] - rstate.start_root_y), scaling)
           new_w == RMax(I(gtp), RAdd(rstate.start_w, dx))
           new_h == RMax(I(gtp), RAdd(rstate.start_h, dy))
       IN  IF ~ok
           THEN /\ last' = Raised("resize.on_motion", "ScalingError")
                /\ UNCHANGED widget
           ELSE IF ~widget.alive
           THEN /\ last' = Raised("resize.on_motion", "TclError")
                /\ UNCHANGED widget
           ELSE /\ widget' = [widget EXCEPT !.w = new_w, !.h = new_h]
                /\ last' = Ran("resize.on_motion")
    /\ UNCHANGED far
    /\ UNCHANGED <<gtp, size_grid, scaling, dstate, rstate, bound, pointer, clicks,
                   ngestures, args, result, overlay, field, press_scaling>>

SnapSizeGrow(v) == (Max2(1, round(RDiv(v, I(gtp)))) + 1) * gtp
SnapSizeGridUnits(v) == Max2(1, round(RDiv(v, I(gtp))))
\* max(1, round(curr / self.gtp)) * self.gtp
SnapSize(v) == Max2(1, round(RDiv(v, I(gtp)))) * gtp

\* make_resizable.on_release(event)
resize_on_release(ok) ==
    /\ pointer = "handle" /\ bound.handle = "resize"
    /\ pointer' = "up"
    /\ far' = FALSE
    /\ press_scaling' = I(1)
    /\ IF ~ok
       THEN /\ last' = Raised("resize.on_release", "ScalingError")
            /\ UNCHANGED widget
       ELSE IF ~widget.alive
       THEN /\ last' = Raised("resize.on_release", "TclError")
            /\ UNCHANGED widget
       ELSE /\ widget' = [widget EXCEPT !.w = I(SnapSize(LiveW)), !.h = I(SnapSize(LiveH))]
            /\ last' = Ran("resize.on_release")
    /\ UNCHANGED <<gtp, size_grid, scaling, dstate, rstate, bound, clicks, ngestures,
                   args, result, overlay, field>>

-----------------------------------------------------------------------------
(* The environment: the host display and the toolkit                        *)

\* the host reports another scaling factor (window moved to another monitor)
SetScaling(s) ==
    /\ s # scaling
    /\ widget.created
    /\ scaling' = s
    /\ UNCHANGED <<gtp, size_grid, widget, dstate, rstate, bound, pointer, clicks,
                   last, ngestures, far, args, result, overlay, field, press_scaling>>

\* the element is destroyed by its owner while handlers are still bound
Destroy ==
    /\ widget.created
    /\ widget.alive
    /\ widget' = [widget EXCEPT !.alive = FALSE]
    /\ UNCHANGED <<gtp, size_grid, scaling, dstate, rstate, bound, pointer, clicks,
                   last, ngestures, far, args, result, overlay, field, press_scaling>>


\* App(size=[10, 10], gtp=50) constructed, nothing placed yet
Init ==
    /\ gtp = DefaultGtp
    /\ size_grid = <<10, 10>>
    /\ scaling \in Scalings
    /\ widget = NoWidget
    /\ dstate = DragState0
    /\ rstate = ResizeState0
    /\ bound = NoBindings
    /\ pointer = "up"
    /\ clicks = 0
    /\ last = Ran("init")
    /\ ngestures = 0
    /\ far = FALSE
    /\ args = NoArgs
    /\ result = <<0, 0>>
    /\ overlay = NoOverlay
    /\ field = NoField
    /\ press_scaling = I(1)

\* the pointer positions of move events: both axes alike, and a few mixed ones
MoveEvents ==
    {ev \in MoveX \X MoveY :
        ev[1] = ev[2] \/ ev \in {<<64, 63>>, <<137, 158>>, <<160, -140>>, <<63, 160>>}}
PlacePos == {<<I(1), I(1)>>}
PlaceSize == {<<I(2), I(1)>>}

Next ==
    \/ \E p \in PlacePos, z \in PlaceSize : btn(p, z)
    \/ \E p \in PlacePos, z \in PlaceSize : label(p, z)
    \/ make_draggable
    \/ make_resizable
    \/ \E s \in Scalings : SetScaling(s)
    \/ \E ev \in PressPts : drag_on_press("widget", ev, TRUE)
    \/ \E ev \in MoveEvents : drag_on_motion(ev)
    \/ drag_on_release(TRUE)
    \/ \E ev \in PressPts : resize_on_press(ev, TRUE)
    \/ \E ev \in MoveEvents : resize_on_motion(ev, TRUE)
    \/ resize_on_release(TRUE)

Spec == Init /\ [][Next]_vars

-----------------------------------------------------------------------------
(* The conversions on their own: right after construction a caller applies *)
(* GridSystem.to_pixels / dim_to_pixels to an arbitrary grid value (and     *)
(* snaps the pixel point back to the grid as on_release does), or places an *)
(* element at an arbitrary grid value.                                      *)

GtpSet == (1..MaxGtp) \cup {DefaultGtp}
SizeCells == {I(1), I(2), Rat(5, 2)}

\* round(curr / self.gtp) per axis, on a pixel point
to_grid(px) == <<round(RDiv(I(px[1]), I(gtp))), round(RDiv(I(px[2]), I(gtp)))>>

call_to_pixels(pos) ==
    /\ last.op = "init"
    /\ args' = [pos |-> pos, size |-> NoArgs.size]
    /\ result' = to_pixels(pos)
    /\ last' = Ran("to_pixels")
    /\ UNCHANGED <<gtp, size_grid, scaling, widget, dstate, rstate, bound, pointer,
                   clicks, ngestures, far, overlay, field, press_scaling>>

call_dim_to_pixels(dim) ==
    /\ last.op = "init"
    /\ args' = [pos |-> NoArgs.pos, size |-> dim]
    /\ result' = dim_to_pixels(dim)
    /\ last' = Ran("dim_to_pixels")
    /\ UNCHANGED <<gtp, size_grid, scaling, widget, dstate, rstate, bound, pointer,
                   clicks, ngestures, far, overlay, field, press_scaling>>

\* the pixel point returned by to_pixels is snapped back to the grid
call_to_grid ==
    /\ last.op = "to_pixels"
    /\ result' = to_grid(result)
    /\ last' = Ran("to_grid")
    /\ UNCHANGED <<gtp, size_grid, scaling, widget, dstate, rstate, bound, pointer,
                   clicks, ngestures, far, args, overlay, field, press_scaling>>

InitGrid ==
    /\ gtp \in GtpSet
    /\ size_grid = <<10, 10>>
    /\ scaling = I(1)
    /\ widget = NoWidget
    /\ dstate = DragState0
    /\ rstate = ResizeState0
    /\ bound = NoBindings
    /\ pointer = "up"
    /\ clicks = 0
    /\ last = Ran("init")
    /\ ngestures = 0
    /\ far = FALSE
    /\ args = NoArgs
    /\ result = <<0, 0>>
    /\ overlay = NoOverlay
    /\ field = NoField
    /\ press_scaling = I(1)

NextGrid ==
    \/ \E c \in GridCells, r \in GridCells : call_to_pixels(<<c, r>>)
    \/ \E c \in SizeCells, r \in SizeCells : call_dim_to_pixels(<<c, r>>)
    \/ call_to_grid
    \/ \E c \in GridCells, r \in GridCells, w \in SizeCells, h \in SizeCells :
          btn(<<c, r>>, <<w, h>>)
    \/ \E c \in GridCells, r \in GridCells, w \in SizeCells, h \in SizeCells :
          label(<<c, r>>, <<w, h>>)

SpecGrid == InitGrid /\ [][NextGrid]_vars

IsInt(r) == r.d = 1
Placed == last.op \in {"btn", "label"}
Bounds == <<widget.x, widget.y, widget.w, widget.h>>

-----------------------------------------------------------------------------
\* C1: an element placed at grid (col,row) with grid size (cols,rows) is created at
\* pixel bounds (int(col)*gtp, int(row)*gtp, int(cols)*gtp, int(rows)*gtp); with
\* gtp=50, position (1,1) and size (2,1) give (50,50,100,50).
C1_PlacementBounds ==
    Placed =>
        /\ widget.created
        /\ Bounds = <<I(int(args.pos[1]) * gtp), I(int(args.pos[2]) * gtp),
                      I(int(args.size[1]) * gtp), I(int(args.size[2]) * gtp)>>
        /\ (gtp = 50 /\ args = [pos |-> <<I(1), I(1)>>, size |-> <<I(2), I(1)>>])
               => Bounds = <<I(50), I(50), I(100), I(50)>>

C1_Witness ==
    /\ last.op = "btn"
    /\ gtp = 50
    /\ args = [pos |-> <<I(1), I(1)>>, size |-> <<I(2), I(1)>>]
    /\ Bounds = <<I(50), I(50), I(100), I(50)>>

\* k is the rational v truncated toward zero
IsTruncOf(k, v) ==
    IF v.n >= 0 THEN k * v.d <= v.n /\ v.n < (k + 1) * v.d
    ELSE (k - 1) * v.d < v.n /\ v.n <= k * v.d

C6_RoundTrip ==
    (last.op = "to_grid" /\ IsInt(args.pos[1]) /\ IsInt(args.pos[2]))
        => result = <<args.pos[1].n, args.pos[2].n>>

C6_Witness ==
    /\ last.op = "to_grid"
    /\ args.pos = <<I(-2), I(3)>>
    /\ gtp = 3
    /\ result = <<-2, 3>>

-----------------------------------------------------------------------------
(* The gesture handlers when the scaling provider may fail to answer and   *)
(* the element may be destroyed while its handlers are still bound.         *)

NextFault ==
    \/ \E p \in PlacePos, z \in PlaceSize : btn(p, z)
    \/ make_draggable
    \/ make_resizable
    \/ Destroy
    \/ \E ev \in PressPts, ok \in BOOLEAN : drag_on_press("widget", ev, ok)
    \/ \E ev \in MoveEvents : drag_on_motion(ev)
    \/ \E ok \in BOOLEAN : drag_on_release(ok)
    \/ \E ev \in PressPts, ok \in BOOLEAN : resize_on_press(ev, ok)
    \/ \E ev \in MoveEvents, ok \in BOOLEAN : resize_on_motion(ev, ok)
    \/ \E ok \in BOOLEAN : resize_on_release(ok)

SpecFault == Init /\ [][NextFault]_vars

-----------------------------------------------------------------------------
DragReleaseStep == pointer = "widget" /\ pointer' = "up"
OnGrid(v) == v.d = 1 /\ v.n % gtp = 0

\* C2: a press/release pair whose moves all stayed within 3 logical pixels of the
\* press point on both axes fires the element's activation action (when it has one)
\* and leaves the position as it is; a gesture with a move of more than 3 logical
\* pixels on either axis commits a grid position and fires no activation.
C2_ClickVsDrag ==
    [][DragReleaseStep =>
          IF ~far
          THEN /\ clicks' = (IF widget.invoke THEN clicks + 1 ELSE clicks)
               /\ <<widget'.x, widget'.y>> = <<widget.x, widget.y>>
          ELSE /\ clicks' = clicks
               /\ OnGrid(widget'.x) /\ OnGrid(widget'.y)]_vars

\* a drag to (150,150) followed by a click that moved the pointer 3 pixels
C2_Witness ==
    /\ last.op = "drag.on_release"
    /\ ngestures = 2
    /\ clicks = 1
    /\ scaling = I(1) /\ dstate.scaling = I(1)
    /\ <<widget.x, widget.y>> = <<I(153), I(153)>>

\* c is a multiple of gtp nearest to the logical position v
NearestCell(c, v) ==
    /\ OnGrid(c)
    /\ ~RLt(I(gtp), RMul(I(2), RAbs(RSub(c, v))))

\* C3: when a drag gesture that exceeded the threshold is released, the committed
\* position is, per axis and independently of the other axis, the multiple of gtp
\* nearest to the element's logical position at release; with gtp=50 a release at
\* (127,148) commits (150,150) = grid (3,3), and an element pressed at (50,50)
\* and moved by (100,100) at scaling 1.0 commits grid (3,3).
C3_SnapLaw ==
    [][(DragReleaseStep /\ far) =>
          /\ NearestCell(widget'.x, LiveX)
          /\ NearestCell(widget'.y, LiveY)
          /\ (gtp = 50 /\ LiveX = I(127) /\ LiveY = I(148))
                 => <<widget'.x, widget'.y>> = <<I(3 * 50), I(3 * 50)>>
          /\ (gtp = 50 /\ scaling = I(1) /\ dstate.scaling = I(1)
                /\ <<dstate.start_w_x, dstate.start_w_y>> = <<I(50), I(50)>>
                /\ <<widget.x, widget.y>> = <<I(50 + 160 - 60), I(50 + 160 - 60)>>)
                 => <<widget'.x, widget'.y>> = <<I(3 * 50), I(3 * 50)>>]_vars

\* the element pressed at (50,50) was dragged and released on grid (3,3)
C3_Witness ==
    /\ last.op = "drag.on_release"
    /\ dstate.moved
    /\ gtp = 50 /\ scaling = I(1) /\ dstate.scaling = I(1)
    /\ <<dstate.start_root_x, dstate.start_root_y>> = <<60, 60>>
    /\ <<dstate.start_w_x, dstate.start_w_y>> = <<I(50), I(50)>>
    /\ <<widget.x, widget.y>> = <<I(150), I(150)>>

\* C4: whenever no gesture is in progress, the element's pixel position and size
\* are exact integer multiples of gtp.
C4_OnGridWhenIdle ==
    (widget.created /\ pointer = "up")
        => OnGrid(widget.x) /\ OnGrid(widget.y) /\ OnGrid(widget.w) /\ OnGrid(widget.h)

\* C7: after the release of a resize gesture the committed width and height are
\* each an integer multiple of gtp and at least gtp, whatever the pointer movement.
C7_ResizeFloor ==
    last.op = "resize.on_release" =>
        /\ OnGrid(widget.w) /\ widget.w.n >= gtp
        /\ OnGrid(widget.h) /\ widget.h.n >= gtp

\* a resize that asked for a negative size from 100 x 50 committed 50 x 50
C7_Witness ==
    /\ last.op = "resize.on_release"
    /\ scaling = I(1)
    /\ <<rstate.start_w, rstate.start_h>> = <<I(100), I(50)>>
    /\ <<widget.w, widget.h>> = <<I(50), I(50)>>

\* C9: a press, move or release callback that fires after the element was
\* destroyed is a silent no-op: no error escapes the handler.
C9_StaleHandleSilent == last.exc # "TclError"

\* C10: when the scaling provider fails to answer, 1.0 is assumed and the gesture
\* continues: no handler fails on the query.
C10_ScalingFallback == last.exc # "ScalingError"

-----------------------------------------------------------------------------
(* core/debug.py: DebugLayer                                                *)

MaxDraws == 2             \* calls of DebugLayer.draw() in one run

\* what canvas.winfo_width() / winfo_height() measure after canvas.update()
CanvW == {1, 600, 1250}
CanvH == {1, 640}
GridExtents == {<<12, 8>>, <<3, 2>>, <<1, 1>>}

range1(n) == 1..n
\* Python range(n)
range(n) == 0..(n - 1)

\* DebugLayer.draw(): root.after(150, self._actual_draw)
draw ==
    /\ overlay.ndraws < MaxDraws
    /\ overlay' = [overlay EXCEPT !.pending_draw = @ + 1, !.ndraws = @ + 1]
    /\ last' = Ran("draw")
    /\ UNCHANGED <<gtp, size_grid, scaling, widget, dstate, rstate, bound, pointer,
                   clicks, ngestures, far, args, result, field, press_scaling>>

LineCountMeasured(measured, spacing, cells) == int(RDiv(I(measured), spacing)) + 1
LineCountCeil(measured, spacing, cells) ==
    Max2(-intFloor(RDiv(I(-measured), spacing)) + 1, cells + 1)
\* max(int(canv_w / gtp) + 1, self.size_grid[0] + 1)
LineCount(measured, spacing, cells) ==
    Max2(int(RDiv(I(measured), spacing)) + 1, cells + 1)

keep_previous(live, canvas) == live
\* if self.canvas: self.canvas.destroy()
destroy_previous(live, canvas) == IF canvas # 0 THEN live \ {canvas} ELSE live

\* DebugLayer._actual_draw(); canv_w, canv_h = the measured canvas size,
\* ok = the scaling provider answers
actual_draw(canv_w, canv_h, ok) ==
    /\ overlay.pending_draw > 0
    /\ LET sc == IF ok THEN scaling ELSE I(1)
           live1 == destroy_previous(overlay.live, overlay.canvas)
           id == overlay.ncreated + 1
           bg_color == IF overlay.bgcolor = "None"
                       THEN (IF overlay.theme = "Dark" THEN "#242424" ELSE "#ebebeb")
                       ELSE overlay.bgcolor
           g == RMul(I(gtp), sc)
           texts == IF overlay.show_coords
                    THEN {[cell |-> <<x, y>>,
                           px |-> RAdd(RMul(I(x), g), RMul(I(4), sc)),
                           py |-> RAdd(RMul(I(y), g), RMul(I(2), sc)),
                           text |-> ToString(x) \o "," \o ToString(y)] :
                              x \in range(size_grid[1]), y \in range(size_grid[2])}
                    ELSE {}
           fresh == [overlay EXCEPT
                !.pending_draw = @ - 1,
                !.canvas = id,
                !.ncreated = id,
                !.live = live1 \cup {id},
                !.lowered = FALSE,
                !.lowered_id = 0,
                !.bg = bg_color,
                !.canv_w = canv_w,
                !.canv_h = canv_h,
                !.spacing = g,
                !.vlines = {},
                !.hlines = {},
                !.labels = {}]
       IN  IF g.n = 0
           THEN \* canv_w / gtp: float division by zero, after the canvas was made
                /\ overlay' = fresh
                /\ last' = Raised("_actual_draw", "ZeroDivisionError")
           ELSE /\ overlay' = [fresh EXCEPT
                    !.vlines = {RMul(I(x), g) : x \in range(LineCount(canv_w, g, size_grid[1]))},
                    !.hlines = {RMul(I(y), g) : y \in range(LineCount(canv_h, g, size_grid[2]))},
                    !.font_size = IF overlay.show_coords THEN int(RMul(I(8), sc)) ELSE @,
                    !.labels = texts,
                    !.pending_lower = @ + 1]
                /\ last' = Ran("_actual_draw")
    /\ UNCHANGED <<gtp, size_grid, scaling, widget, dstate, rstate, bound, pointer,
                   clicks, ngestures, far, args, result, field, press_scaling>>

lower_dropped ==
    /\ overlay.pending_lower > 0
    /\ overlay' = [overlay EXCEPT !.pending_lower = @ - 1]
    /\ last' = Ran("lower")
    /\ UNCHANGED <<gtp, size_grid, scaling, widget, dstate, rstate, bound, pointer,
                   clicks, ngestures, far, args, result, field, press_scaling>>

\* the surface made by the draw that scheduled the oldest pending lower step
lower_target_at_schedule == overlay.ncreated - overlay.pending_lower + 1
\* lambda: ... self.canvas._w: self.canvas is read when the lambda runs
lower_target == overlay.canvas

\* the deferred lambda: root.tk.call('lower', self.canvas._w); lowered_id is the
\* surface the last lower step since the last draw acted on
lower ==
    /\ overlay.pending_lower > 0
    /\ IF lower_target \in overlay.live
       THEN /\ overlay' = [overlay EXCEPT !.pending_lower = @ - 1,
                                          !.lowered = (lower_target = overlay.canvas),
                                          !.lowered_id = lower_target]
            /\ last' = Ran("lower")
       ELSE \* the window path of a destroyed canvas
            /\ overlay' = [overlay EXCEPT !.pending_lower = @ - 1]
            /\ last' = Raised("lower", "TclError")
    /\ UNCHANGED <<gtp, size_grid, scaling, widget, dstate, rstate, bound, pointer,
                   clicks, ngestures, far, args, result, field, press_scaling>>

\* App(size, gtp, show_grid=True) up to DebugLayer.__init__, size taken from extents
InitOverlayWith(extents) ==
    /\ gtp = DefaultGtp
    /\ size_grid \in extents
    /\ scaling \in Scalings
    /\ widget = NoWidget
    /\ dstate = DragState0
    /\ rstate = ResizeState0
    /\ bound = NoBindings
    /\ pointer = "up"
    /\ clicks = 0
    /\ last = Ran("init")
    /\ ngestures = 0
    /\ far = FALSE
    /\ args = NoArgs
    /\ result = <<0, 0>>
    /\ \E show \in BOOLEAN, bgcolor \in {"None", "black"}, theme \in {"Dark", "Light"} :
          overlay = NewOverlay(show, bgcolor, theme)
    /\ field = NoField
    /\ press_scaling = I(1)

InitOverlay == InitOverlayWith(GridExtents)

NextOverlay ==
    \/ draw
    \/ \E w \in CanvW, h \in CanvH, ok \in BOOLEAN : actual_draw(w, h, ok)
    \/ lower

SpecOverlay == InitOverlay /\ [][NextOverlay]_vars

-----------------------------------------------------------------------------
\* C8: for a grid extent (cols, rows), any scaling factor and any measured surface
\* size, one overlay draw creates at least cols+1 vertical and rows+1 horizontal
\* lines and, when labels are enabled, exactly cols*rows labels, one per cell (x,y)
\* with 0<=x<cols, 0<=y<rows, reading "x,y"; for (12,8): at least 13 and 9 lines
\* and exactly 96 labels.
C8_OverlayCoverage ==
    overlay.canvas # 0 =>
        LET cols == size_grid[1]
            rows == size_grid[2]
        IN  /\ Cardinality(overlay.vlines) >= cols + 1
            /\ Cardinality(overlay.hlines) >= rows + 1
            /\ overlay.show_coords =>
                  /\ Cardinality(overlay.labels) = cols * rows
                  /\ \A x \in 0..(cols - 1), y \in 0..(rows - 1) :
                        Cardinality({t \in overlay.labels :
                            t.cell = <<x, y>>
                            /\ t.text = ToString(x) \o "," \o ToString(y)}) = 1
            /\ size_grid = <<12, 8>> =>
                  /\ Cardinality(overlay.vlines) >= 13
                  /\ Cardinality(overlay.hlines) >= 9
                  /\ overlay.show_coords => Cardinality(overlay.labels) = 96

\* a 12 x 8 grid drawn with labels at scaling 1.5 on a canvas measured 1 x 1
C8_Witness ==
    /\ last.op = "_actual_draw"
    /\ size_grid = <<12, 8>>
    /\ scaling = Rat(3, 2)
    /\ overlay.show_coords
    /\ Cardinality(overlay.vlines) = 13
    /\ Cardinality(overlay.hlines) = 9
    /\ Cardinality(overlay.labels) = 96
    /\ \E t \in overlay.labels : t.cell = <<11, 7>> /\ t.text = "11,7"

-----------------------------------------------------------------------------
(* core/app.py App.__init__ with arbitrary configuration values, followed   *)
(* by placements and overlay draws on the application it produced.          *)

\* gtp and size arguments a caller may pass to App(...)
ConfigGtps == {-50, -1, 0, 1, 50}
ConfigExtents == {<<3, 2>>, <<0, 5>>, <<4, 0>>, <<0, 0>>, <<-2, 3>>}

\* GridSystem.__init__(gtp): stores gtp as given
GridSystem_init(g) == gtp = g

\* BackendCustomTK.__init__(title, width, height): root.geometry(f"{width}x{height}")
\* is taken by the toolkit for sizes >= 0; what the toolkit does with a negative
\* size (take it, or raise TclError) is left open
BackendOutcomes(width, height) ==
    IF width >= 0 /\ height >= 0 THEN {"none"} ELSE {"none", "TclError"}

\* App.__init__(size, gtp, show_grid, text_coord)
App_init(size, g, show_grid, text_coord) ==
    /\ size_grid = <<int(I(size[1])), int(I(size[2]))>>
    /\ GridSystem_init(int(I(g)))
    /\ result = get_window_size(<<I(size[1]), I(size[2])>>)
    /\ args = [pos |-> NoArgs.pos, size |-> <<I(size[1]), I(size[2])>>]
    /\ \E exc \in BackendOutcomes(result[1], result[2]) :
          /\ last = Raised("init", exc)
          /\ overlay = IF exc = "none" /\ show_grid
                       THEN [NewOverlay(text_coord, "None", "Dark") EXCEPT
                                !.pending_draw = 1, !.ndraws = 1]
                       ELSE NoOverlay
    /\ scaling \in Scalings
    /\ widget = NoWidget
    /\ dstate = DragState0
    /\ rstate = ResizeState0
    /\ bound = NoBindings
    /\ pointer = "up"
    /\ clicks = 0
    /\ ngestures = 0
    /\ far = FALSE
    /\ field = NoField
    /\ press_scaling = I(1)

InitConfig ==
    \E size \in ConfigExtents, g \in ConfigGtps, show_grid \in BOOLEAN, text_coord \in BOOLEAN :
        App_init(size, g, show_grid, text_coord)

\* the application object exists
Constructed == ~(last.op = "init" /\ last.exc # "none")

NextConfig ==
    \/ \E c \in {I(-2), I(0), I(1)}, r \in {I(-1), I(2)} : btn(<<c, r>>, <<I(2), I(1)>>)
    \/ \E c \in {I(-2), I(0), I(1)}, r \in {I(-1), I(2)} : label(<<c, r>>, <<I(2), I(1)>>)
    \/ \E w \in CanvW, h \in CanvH, ok \in BOOLEAN : actual_draw(w, h, ok)
    \/ lower

SpecConfig == InitConfig /\ [][NextConfig]_vars

\* C11: a grid-to-pixel factor that is zero or negative fails at construction of
\* the grid system / application, before any element is placed: no constructed
\* application has gtp <= 0.
C11_GtpFailFast == Constructed => gtp > 0

\* C12: a grid extent with a zero or negative number of columns or rows fails at
\* construction, instead of producing a window or overlay: no constructed
\* application has a non-positive extent.
C12_ExtentFailFast == Constructed => (size_grid[1] > 0 /\ size_grid[2] > 0)

-----------------------------------------------------------------------------
(* core/app.py App.number: the entry's <KeyRelease> binding hands the       *)
(* entry's content to filter_numbers.  A text is a sequence of characters.  *)

MaxKeys == 3              \* key strokes delivered to the entry in one run

\* characters the user can type; the last two stand for U+0663 and U+00B2
Chars == {"-", "0", "1", "5", "a", "ARABIC-INDIC DIGIT THREE", "SUPERSCRIPT TWO"}
\* the value int() gives a decimal digit character
DecimalValue ==
    [c \in {"0", "1", "5", "ARABIC-INDIC DIGIT THREE"} |->
        IF c = "0" THEN 0 ELSE IF c = "1" THEN 1 ELSE IF c = "5" THEN 5 ELSE 3]
\* characters for which str.isdigit() is true
DigitChars == DOMAIN DecimalValue \cup {"SUPERSCRIPT TWO"}
\* (min, max) pairs given to App.number
FieldRanges == {<<0, 5>>, <<-5, 11>>, <<10, 1>>}

\* val[1:]
Tail1(val) == SubSeq(val, 2, Len(val))
\* str.isdigit(): non-empty and every character is a digit character
isdigit(val) == Len(val) > 0 /\ \A i \in 1..Len(val) : val[i] \in DigitChars

RECURSIVE ParseDigits(_, _)
ParseDigits(val, acc) ==
    IF Len(val) = 0 THEN acc ELSE ParseDigits(Tail1(val), 10 * acc + DecimalValue[val[1]])

\* int(val) for a val that passed the isdigit test: ValueError when a character
\* has no decimal value
py_int(val) ==
    LET neg == val[1] = "-"
        ds == IF neg THEN Tail1(val) ELSE val
    IN  IF \E i \in 1..Len(ds) : ds[i] \notin DOMAIN DecimalValue
        THEN [ok |-> FALSE, n |-> 0]
        ELSE [ok |-> TRUE, n |-> IF neg THEN -ParseDigits(ds, 0) ELSE ParseDigits(ds, 0)]

OutOfRangeStrict(num, min, max) == num <= min \/ num >= max
\* num < min or num > max
OutOfRange(num, min, max) == num < min \/ num > max

\* filter_numbers(val): whether onchange is called, with what, and the exception
\* that escapes
filter_numbers(val, min, max) ==
    LET quiet == [fired |-> FALSE, value |-> 0, exc |-> "none"]
        temp_val == IF Len(val) > 0 /\ val[1] = "-" THEN Tail1(val) ELSE val
    IN  IF val = <<>> THEN quiet
        ELSE IF ~isdigit(temp_val) THEN quiet
        ELSE IF ~py_int(val).ok THEN [quiet EXCEPT !.exc = "ValueError"]
        ELSE IF OutOfRange(py_int(val).n, min, max) THEN quiet
        ELSE [fired |-> TRUE, value |-> py_int(val).n, exc |-> "none"]

\* the entry after its content became `typed` and the <KeyRelease> binding
\* lambda e: onchange(entry.get()) ran
on_key_release(typed) ==
    LET out == filter_numbers(typed, field.min, field.max)
    IN  [field EXCEPT !.typed = typed, !.text = typed, !.fired = out.fired,
                      !.value = out.value, !.nkeys = @ + 1]

\* the user types a character at the end of the entry
KeyChar(ch) ==
    /\ field.created
    /\ field.nkeys < MaxKeys
    /\ field' = on_key_release(Append(field.text, ch))
    /\ last' = Raised("filter_numbers",
                      filter_numbers(Append(field.text, ch), field.min, field.max).exc)
    /\ UNCHANGED <<gtp, size_grid, scaling, widget, dstate, rstate, bound, pointer,
                   clicks, ngestures, far, args, result, overlay, press_scaling>>

\* the user deletes the last character
KeyBackSpace ==
    /\ field.created
    /\ field.nkeys < MaxKeys
    /\ Len(field.text) > 0
    /\ field' = on_key_release(SubSeq(field.text, 1, Len(field.text) - 1))
    /\ last' = Raised("filter_numbers",
                      filter_numbers(SubSeq(field.text, 1, Len(field.text) - 1),
                                     field.min, field.max).exc)
    /\ UNCHANGED <<gtp, size_grid, scaling, widget, dstate, rstate, bound, pointer,
                   clicks, ngestures, far, args, result, overlay, press_scaling>>

\* App.number(pos, size, min, max, onchange) on a fresh application
InitNumber ==
    /\ gtp = DefaultGtp
    /\ size_grid = <<10, 10>>
    /\ scaling = I(1)
    /\ widget = NoWidget
    /\ dstate = DragState0
    /\ rstate = ResizeState0
    /\ bound = NoBindings
    /\ pointer = "up"
    /\ clicks = 0
    /\ last = Ran("number")
    /\ ngestures = 0
    /\ far = FALSE
    /\ args = NoArgs
    /\ result = <<0, 0>>
    /\ overlay = NoOverlay
    /\ \E r \in FieldRanges :
          field = [NoField EXCEPT !.created = TRUE, !.min = r[1], !.max = r[2]]
    /\ press_scaling = I(1)

NextNumber ==
    \/ \E ch \in Chars : KeyChar(ch)
    \/ KeyBackSpace

SpecNumber == InitNumber /\ [][NextNumber]_vars

\* the text is an optional leading '-' followed by one or more decimal digits
IsNumeral(t) ==
    LET ds == IF Len(t) > 0 /\ t[1] = "-" THEN SubSeq(t, 2, Len(t)) ELSE t
    IN  Len(ds) >= 1 /\ \A i \in 1..Len(ds) : ds[i] \in DOMAIN DecimalValue

\* n is the integer the numeral t denotes
RECURSIVE Denotes(_, _)
Denotes(t, n) ==
    IF t[1] = "-" THEN n <= 0 /\ Denotes(SubSeq(t, 2, Len(t)), -n)
    ELSE IF Len(t) = 1 THEN n = DecimalValue[t[1]]
    ELSE /\ n >= 0
         /\ n % 10 = DecimalValue[t[Len(t)]]
         /\ Denotes(SubSeq(t, 1, Len(t) - 1), n \div 10)

\* C13: after a key release in a number field with bounds min and max, the change
\* callback has been invoked, with the integer n, exactly when the content is an
\* optional leading '-' followed by one or more digits denoting n with
\* min <= n <= max; for any other content no notification is made; the filter
\* leaves the content of the entry as the user typed it.
C13_NumberFilter ==
    last.op = "filter_numbers" =>
        /\ field.fired <=>
              /\ IsNumeral(field.typed)
              /\ \E n \in field.min .. field.max : Denotes(field.typed, n)
        /\ field.fired => Denotes(field.typed, field.value)
        /\ field.text = field.typed

\* "-5" typed into a field with bounds -5..11 notified -5
C13_Witness ==
    /\ last.op = "filter_numbers"
    /\ field.min = -5 /\ field.max = 11
    /\ field.text = <<"-", "5">>
    /\ field.fired /\ field.value = -5

-----------------------------------------------------------------------------
\* C14: negative grid coordinates are accepted by to_pixels and by placement
\* without validation and map to negative pixel offsets: for an integer
\* component c < 0 the pixel offset is c * gtp, and no error is raised.
C14_NegativeCoordinates ==
    /\ last.op = "to_pixels" =>
          /\ last.exc = "none"
          /\ \A i \in {1, 2} :
                (IsInt(args.pos[i]) /\ args.pos[i].n < 0)
                    => (result[i] = args.pos[i].n * gtp /\ result[i] < 0)
    /\ Placed =>
          /\ last.exc = "none" /\ widget.created
          /\ (IsInt(args.pos[1]) /\ args.pos[1].n < 0)
                => (widget.x = I(args.pos[1].n * gtp) /\ widget.x.n < 0)
          /\ (IsInt(args.pos[2]) /\ args.pos[2].n < 0)
                => (widget.y = I(args.pos[2].n * gtp) /\ widget.y.n < 0)

\* a button placed at grid (-2, -3) with gtp = 50 sits at pixel (-100, -150)
C14_Witness ==
    /\ last.op = "btn"
    /\ gtp = 50
    /\ args.pos = <<I(-2), I(-3)>>
    /\ <<widget.x, widget.y>> = <<I(-100), I(-150)>>

-----------------------------------------------------------------------------
(* Gestures on the element and on its resize handle, for both orders of     *)
(* make_draggable and make_resizable: a press on the handle runs whatever   *)
(* handlers are bound on the handle's surface.                              *)

HandleMoves == {<<63, 63>>, <<160, 158>>}

\* App.btn for another element: the toolkit stacks the new element above the
\* ones created before it
btn_other ==
    /\ widget.created
    /\ widget.on_top
    /\ pointer = "up"
    /\ widget' = [widget EXCEPT !.on_top = FALSE]
    /\ UNCHANGED <<gtp, size_grid, scaling, dstate, rstate, bound, pointer, clicks,
                   last, ngestures, far, args, result, overlay, field, press_scaling>>

NextHandle ==
    \/ \E p \in PlacePos, z \in PlaceSize : btn(p, z)
    \/ btn_other
    \/ make_draggable
    \/ make_resizable
    \/ \E tgt \in {"widget", "child", "handle"}, ev \in PressPts :
          drag_on_press(tgt, ev, TRUE)
    \/ \E ev \in HandleMoves : drag_on_motion(ev)
    \/ drag_on_release(TRUE)
    \/ \E ev \in PressPts : resize_on_press(ev, TRUE)
    \/ \E ev \in HandleMoves : resize_on_motion(ev, TRUE)
    \/ resize_on_release(TRUE)

SpecHandle == Init /\ [][NextHandle]_vars

\* a press on the handle, or a move or release of a gesture that started on it
HandleStep == (pointer = "up" /\ pointer' = "handle") \/ pointer = "handle"

\* C17: whatever the order in which drag and resize were enabled, a press / move /
\* release on the handle changes only the element's size: the position is not
\* moved and the drag gesture state (start position, moved flag) is not modified.
C17_HandleIndependent ==
    [][(bound.resize /\ HandleStep) =>
          /\ <<widget'.x, widget'.y>> = <<widget.x, widget.y>>
          /\ dstate' = dstate]_vars

-----------------------------------------------------------------------------
(* Claims about the moves of a gesture (checked under Spec, where the host  *)
(* may report another scaling factor between any two events).               *)

\* a step of a gesture in progress on the element that is not its release and
\* not a change of the host's scaling factor: a move event
DragMoveStep == pointer = "widget" /\ pointer' = "widget" /\ scaling' = scaling
ResizeMoveStep == pointer = "handle" /\ pointer' = "handle" /\ scaling' = scaling
DragPressStep == pointer = "up" /\ pointer' = "widget"
ResizeReleaseStep == pointer = "handle" /\ pointer' = "up"

\* the logical delta of a move to root coordinate c from the press coordinate c0
\* at scaling factor sc
LogicalDelta(c, c0, sc) == RDiv(I(c - c0), sc)

\* C15: during one drag gesture every move's logical delta is computed with the
\* scaling factor the host reported at press, also when the host's factor has
\* changed since: the position after a move is start + (pointer - start pointer)
\* divided by the press-time factor.
C15_DragScalingFixed ==
    [][DragMoveStep =>
          \E ev \in MoveEvents :
              /\ RMul(RSub(widget'.x, dstate.start_w_x), press_scaling)
                     = I(ev[1] - dstate.start_root_x)
              /\ RMul(RSub(widget'.y, dstate.start_w_y), press_scaling)
                     = I(ev[2] - dstate.start_root_y)]_vars

\* pressed at scaling 1.0, the host changed to 1.5, the move by 100 px moved the
\* element by 100
C15_Witness ==
    /\ pointer = "widget"
    /\ last.op = "drag.on_motion"
    /\ press_scaling = I(1) /\ scaling = Rat(3, 2)
    /\ dstate.start_w_x = I(50)
    /\ widget.x = I(150)

\* C16: during one resize gesture every move's size is computed with the logical
\* delta taken at the scaling factor captured at press, also when the host's
\* factor has changed since.
C16_ResizeScalingFixed ==
    [][ResizeMoveStep =>
          \E ev \in MoveEvents :
              /\ widget'.w = RMax(I(gtp), RAdd(rstate.start_w,
                        LogicalDelta(ev[1], rstate.start_root_x, press_scaling)))
              /\ widget'.h = RMax(I(gtp), RAdd(rstate.start_h,
                        LogicalDelta(ev[2], rstate.start_root_y, press_scaling)))]_vars

\* C18: while a drag gesture is pressed, the press records the element's position
\* and the pointer, nothing changes that record before the release, and after
\* every move the live position is exactly (position at press) + (pointer -
\* pointer at press) / scaling-at-press on each axis, unsnapped, whatever moves
\* came before.
C18_LivePosition ==
    [][/\ DragPressStep =>
             /\ <<dstate'.start_w_x, dstate'.start_w_y>> = <<LiveX, LiveY>>
             /\ <<dstate'.start_root_x, dstate'.start_root_y>> \in PressPts
             /\ <<widget'.x, widget'.y>> = <<widget.x, widget.y>>
       /\ pointer = "widget" =>
             /\ dstate'.start_w_x = dstate.start_w_x
             /\ dstate'.start_w_y = dstate.start_w_y
             /\ dstate'.start_root_x = dstate.start_root_x
             /\ dstate'.start_root_y = dstate.start_root_y
       /\ DragMoveStep =>
             \E ev \in MoveEvents :
                 /\ widget'.x = RAdd(dstate.start_w_x,
                        LogicalDelta(ev[1], dstate.start_root_x, press_scaling))
                 /\ widget'.y = RAdd(dstate.start_w_y,
                        LogicalDelta(ev[2], dstate.start_root_y, press_scaling))]_vars

\* pressed at (50,50) with the pointer at (60,60), now at (137,158): the element
\* is at (127,148), off the grid
C18_Witness ==
    /\ pointer = "widget"
    /\ last.op = "drag.on_motion"
    /\ press_scaling = I(1)
    /\ <<dstate.start_w_x, dstate.start_w_y>> = <<I(50), I(50)>>
    /\ <<widget.x, widget.y>> = <<I(127), I(148)>>

\* C19: during a resize gesture every move sets the logical width and height to
\* max(gtp, start_size + delta), so in every state between press and release the
\* width and height are at least gtp.
C19_ResizeClamp ==
    /\ pointer = "handle" =>
          (~RLt(widget.w, I(gtp)) /\ ~RLt(widget.h, I(gtp)))
    /\ (pointer = "handle" /\ last.op = "resize.on_motion") =>
          \E ev \in MoveEvents, sc \in Scalings :
              LET want_w == RAdd(rstate.start_w, LogicalDelta(ev[1], rstate.start_root_x, sc))
                  want_h == RAdd(rstate.start_h, LogicalDelta(ev[2], rstate.start_root_y, sc))
              IN  /\ widget.w = (IF RLt(want_w, I(gtp)) THEN I(gtp) ELSE want_w)
                  /\ widget.h = (IF RLt(want_h, I(gtp)) THEN I(gtp) ELSE want_h)

\* a 100 x 50 element whose handle was moved 200 px up and left is 50 x 50
C19_Witness ==
    /\ pointer = "handle"
    /\ last.op = "resize.on_motion"
    /\ <<rstate.start_w, rstate.start_h>> = <<I(100), I(50)>>
    /\ <<widget.w, widget.h>> = <<I(gtp), I(gtp)>>

\* C20: a release of the handle that follows its press without any move commits
\* (the release handler runs, there is no click branch) a size equal to the size
\* before the press, when that size was a whole number of cells.
C20_ResizeNoMove ==
    [][(ResizeReleaseStep /\ last.op = "resize.on_press"
            /\ OnGrid(widget.w) /\ OnGrid(widget.h)
            /\ widget.w.n >= gtp /\ widget.h.n >= gtp) =>
          /\ last'.op = "resize.on_release"
          /\ <<widget'.w, widget'.h>> = <<widget.w, widget.h>>]_vars

\* after a first resize to 200 x 150, a press and release of the handle left
\* 200 x 150
C20_Witness ==
    /\ last.op = "resize.on_release"
    /\ ngestures = 2
    /\ <<rstate.start_w, rstate.start_h>> = <<I(200), I(150)>>
    /\ <<widget.w, widget.h>> = <<I(200), I(150)>>

-----------------------------------------------------------------------------
\* the element's descendants: those it has from its creation and, once
\* make_resizable ran, the handle
Descendants == {"child"} \cup (IF bound.resize THEN {"handle"} ELSE {})

\* a gesture in progress that started on a descendant carrying the drag handlers
OnDescendant == pointer \in {"child", "handle"} /\ DragBoundOn(pointer)

\* C21: enabling drag binds the press, move and release handlers on the element
\* and on every descendant it has; a gesture started on a descendant moves the
\* root element to start + delta on every move and, at release, clicks or snaps it
\* to the nearest cell exactly as a gesture on the root does.
C21_DescendantsDrag ==
    [][/\ (~bound.drag /\ bound'.drag) =>
             /\ DragBoundOn("widget")'
             /\ \A t \in Descendants : DragBoundOn(t)'
       /\ (OnDescendant /\ pointer' = pointer) =>
             \E ev \in HandleMoves :
                 /\ widget'.x = RAdd(dstate.start_w_x,
                        LogicalDelta(ev[1], dstate.start_root_x, press_scaling))
                 /\ widget'.y = RAdd(dstate.start_w_y,
                        LogicalDelta(ev[2], dstate.start_root_y, press_scaling))
       /\ (OnDescendant /\ pointer' = "up") =>
             IF far
             THEN /\ NearestCell(widget'.x, LiveX) /\ NearestCell(widget'.y, LiveY)
                  /\ clicks' = clicks
             ELSE /\ <<widget'.x, widget'.y>> = <<widget.x, widget.y>>
                  /\ clicks' = IF widget.invoke THEN clicks + 1 ELSE clicks]_vars

\* a gesture pressed on the inner canvas has moved the button from (50,50) to
\* (150,148)
C21_Witness ==
    /\ pointer = "child"
    /\ last.op = "drag.on_motion"
    /\ <<dstate.start_w_x, dstate.start_w_y>> = <<I(50), I(50)>>
    /\ <<widget.x, widget.y>> = <<I(150), I(148)>>

\* C22: every pointer-down of a drag gesture raises the element above its
\* siblings and resets the moved flag without changing the element's position;
\* during the gesture the moved flag says whether a move of this gesture went
\* beyond 3 logical pixels, whatever earlier gestures did.
C22_PressResets ==
    [][/\ (pointer = "up" /\ pointer' # "up" /\ DragBoundOn(pointer')) =>
             /\ widget'.on_top
             /\ ~dstate'.moved
             /\ <<widget'.x, widget'.y>> = <<widget.x, widget.y>>
       /\ (pointer' # "up" /\ DragBoundOn(pointer')) => (dstate'.moved <=> far')]_vars

\* second gesture on an element below a sibling, after a first gesture that was a
\* drag: pressed, raised, moved flag false
C22_Witness ==
    /\ pointer = "widget"
    /\ last.op = "drag.on_press"
    /\ ngestures = 2
    /\ widget.on_top
    /\ ~dstate.moved
    /\ <<widget.x, widget.y>> = <<I(150), I(150)>>

-----------------------------------------------------------------------------
\* the positions of n grid lines at spacing g
LinesAt(n, g) == {RMul(I(k), g) : k \in 0..(n - 1)}

-----------------------------------------------------------------------------
(* The overlay under the toolkit's event loop: a callback scheduled with    *)
(* after() is run once its delay has passed.                                *)

\* measured canvas sizes and grid extents of the fair runs
FairCanv == {<<1, 1>>, <<120, 60>>}
FairExtents == {<<2, 1>>, <<1, 1>>}

InitOverlayFair == InitOverlayWith(FairExtents)

\* the scheduled self._actual_draw runs
draw_callback == \E c \in FairCanv, ok \in BOOLEAN : actual_draw(c[1], c[2], ok)

NextOverlayFair ==
    \/ draw
    \/ draw_callback
    \/ lower

SpecOverlayFair ==
    /\ InitOverlayFair
    /\ [][NextOverlayFair]_vars
    /\ WF_vars(draw_callback)
    /\ WF_vars(lower)

\* C24: a call of draw() creates no surface itself, it only schedules the draw;
\* a surface is created only by the deferred draw callback, which schedules a
\* lower step; and every scheduled draw is eventually followed by a state in
\* which the drawn surface is at the bottom of the stacking order.
C24_DeferredDrawAndLower ==
    /\ [][/\ overlay'.pending_draw > overlay.pending_draw =>
                 (overlay'.canvas = overlay.canvas /\ overlay'.ncreated = overlay.ncreated
                    /\ overlay'.live = overlay.live)
          /\ overlay'.ncreated > overlay.ncreated =>
                 (overlay'.pending_draw = overlay.pending_draw - 1
                    /\ overlay'.pending_lower = overlay.pending_lower + 1
                    /\ ~overlay'.lowered)]_vars
    /\ (overlay.pending_draw > 0) ~>
          (overlay.canvas # 0 /\ overlay.lowered /\ overlay.pending_draw = 0)

\* both scheduled draws and both lower steps have run
C24_Witness ==
    /\ last.op = "lower"
    /\ overlay.ndraws = 2
    /\ overlay.canvas = 2
    /\ overlay.lowered
    /\ overlay.pending_draw = 0 /\ overlay.pending_lower = 0

-----------------------------------------------------------------------------
\* the least integer >= r and the greatest integer <= r
Ceil(r) == -((-r.n) \div r.d)
Floor(r) == r.n \div r.d

\* C25 (as stated): with spacing = gtp * scaling factor, one overlay draw creates
\* exactly max(ceil(surface_width / spacing) + 1, cols + 1) vertical lines and
\* max(ceil(surface_height / spacing) + 1, rows + 1) horizontal lines.
C25_LineCountCeil ==
    (overlay.canvas # 0 /\ overlay.spacing.n > 0) =>
        /\ Cardinality(overlay.vlines)
              = Max2(Ceil(RDiv(I(overlay.canv_w), overlay.spacing)) + 1, size_grid[1] + 1)
        /\ Cardinality(overlay.hlines)
              = Max2(Ceil(RDiv(I(overlay.canv_h), overlay.spacing)) + 1, size_grid[2] + 1)

\* C25 (amended): with spacing = gtp * scaling factor, one overlay draw creates
\* exactly max(floor(surface_width / spacing) + 1, cols + 1) vertical lines and
\* max(floor(surface_height / spacing) + 1, rows + 1) horizontal lines.
C25_LineCountFloor ==
    (overlay.canvas # 0 /\ overlay.spacing.n > 0) =>
        /\ Cardinality(overlay.vlines)
              = Max2(Floor(RDiv(I(overlay.canv_w), overlay.spacing)) + 1, size_grid[1] + 1)
        /\ Cardinality(overlay.hlines)
              = Max2(Floor(RDiv(I(overlay.canv_h), overlay.spacing)) + 1, size_grid[2] + 1)

\* a 1250 x 640 surface at spacing 75: 17 vertical and 9 horizontal lines
C25_Witness ==
    /\ last.op = "_actual_draw"
    /\ overlay.canv_w = 1250 /\ overlay.canv_h = 640
    /\ overlay.spacing = I(75)
    /\ size_grid = <<3, 2>>
    /\ Cardinality(overlay.vlines) = 17
    /\ Cardinality(overlay.hlines) = 9

-----------------------------------------------------------------------------
\* what a caller can read of the element's placement: the position through
\* get_current_coord, and the size the toolkit reports
PlacementRead == <<get_current_coord, <<winfo_width, winfo_height>>>>

\* C26: the placement of an element as returned to callers is created at
\* placement and changes only at the release that ends a drag or resize: no
\* press and no move event changes it (the bounds of a gesture in progress are
\* kept in the gesture's own state only).
C26_PlacementCommitOnly ==
    [][(widget.created /\ pointer' # "up" /\ scaling' = scaling) =>
          PlacementRead' = PlacementRead]_vars

\* C27: within one drag gesture the moved flag is monotone: once a move went
\* beyond 3 logical pixels on an axis the flag stays true, through later moves and
\* after the release until the next press, so a gesture whose pointer came back to
\* within 3 pixels of the press position still commits a snapped position at
\* release and fires no activation.
C27_MovedMonotone ==
    [][/\ (pointer = "widget" /\ far) =>
             /\ dstate.moved
             /\ pointer' = "widget" => dstate'.moved
             /\ pointer' = "up" =>
                   /\ dstate'.moved
                   /\ clicks' = clicks
                   /\ NearestCell(widget'.x, LiveX) /\ NearestCell(widget'.y, LiveY)
       /\ (pointer = "up" /\ pointer' = "up" /\ bound.drag /\ bound'.drag) =>
             dstate'.moved = dstate.moved]_vars

\* the pointer went beyond the threshold and is back at 3 pixels from the press
\* position: the flag is still set
C27_Witness ==
    /\ pointer = "widget"
    /\ last.op = "drag.on_motion"
    /\ far /\ dstate.moved
    /\ press_scaling = I(1)
    /\ widget.x = RAdd(dstate.start_w_x, I(3))
    /\ widget.y = RAdd(dstate.start_w_y, I(3))

\* C28: drag and resize write disjoint parts of the element's bounds: no press,
\* move or release of a drag gesture changes the width or height, none of a
\* resize gesture changes the position, and nothing else changes either once
\* the element is placed; so the position is the one of the last drag and the
\* size the one of the last resize.
C28_DisjointBounds ==
    [][widget.created =>
          /\ (pointer = "widget" \/ pointer' = "widget") =>
                <<widget'.w, widget'.h>> = <<widget.w, widget.h>>
          /\ (pointer = "handle" \/ pointer' = "handle") =>
                <<widget'.x, widget'.y>> = <<widget.x, widget.y>>
          /\ <<widget'.x, widget'.y>> # <<widget.x, widget.y>> => pointer = "widget"
          /\ <<widget'.w, widget'.h>> # <<widget.w, widget.h>> => pointer = "handle"]_vars

\* a drag to (150,150) and then a resize to 200 x 150: both are kept
C28_Witness ==
    /\ last.op = "resize.on_release"
    /\ ngestures = 2
    /\ dstate.moved
    /\ <<widget.x, widget.y>> = <<I(150), I(150)>>
    /\ <<widget.w, widget.h>> = <<I(200), I(150)>>

-----------------------------------------------------------------------------
\* a deferred lower step runs
LowerStep == overlay'.pending_lower < overlay.pending_lower

\* C29: when overlay draws are interleaved with their pending lower steps, each
\* lower step acts on the surface that is current when it runs, which exists
\* (it is never one destroyed by a later redraw); once no draw and no lower step
\* is pending the single live surface is at the bottom of the stacking order.
C29_LowerCurrentSurface ==
    /\ [][LowerStep =>
             /\ last'.exc = "none"
             /\ overlay.canvas \in overlay.live
             /\ overlay'.lowered_id = overlay.canvas
             /\ overlay'.lowered]_vars
    /\ []((overlay.canvas # 0 /\ overlay.pending_draw = 0 /\ overlay.pending_lower = 0) =>
             (overlay.lowered /\ overlay.live = {overlay.canvas}))

\* two draws ran before the first of their two lower steps: that step lowered
\* the second surface
C29_Witness ==
    /\ last.op = "lower"
    /\ overlay.pending_lower = 1
    /\ overlay.canvas = 2
    /\ overlay.live = {2}
    /\ overlay.lowered_id = 2
    /\ overlay.lowered

-----------------------------------------------------------------------------
(* Gestures that end exactly half-way between two cells.                    *)

\* the pointer positions of the move events: from the press at (60,60) and an
\* element at (50,50) of 100 x 50 they give live values of 125 and 175, and a
\* few that are not half-way
SnapMoves == {<<135, 135>>, <<185, 185>>, <<135, 185>>, <<77, 136>>}

NextSnap ==
    \/ \E p \in PlacePos, z \in PlaceSize : btn(p, z)
    \/ make_draggable
    \/ make_resizable
    \/ \E ev \in PressPts : drag_on_press("widget", ev, TRUE)
    \/ \E ev \in SnapMoves : drag_on_motion(ev)
    \/ drag_on_release(TRUE)
    \/ \E ev \in PressPts : resize_on_press(ev, TRUE)
    \/ \E ev \in SnapMoves : resize_on_motion(ev, TRUE)
    \/ resize_on_release(TRUE)

SpecSnap == Init /\ [][NextSnap]_vars

\* c is a multiple of gtp at most gtp/2 from the live value v, and the even
\* multiple when v is exactly half-way between two
HalfEvenCell(c, v) ==
    LET twice == RMul(I(2), RAbs(RSub(c, v)))
    IN  /\ OnGrid(c)
        /\ ~RLt(I(gtp), twice)
        /\ (twice = I(gtp)) => (c.n \div gtp) % 2 = 0

\* C30: snapping at release rounds exact half-way values to the even grid index:
\* a live position or size of (k + 1/2) * gtp commits cell k when k is even and
\* cell k + 1 when k is odd (with gtp = 50, 125 commits cell 2 and 175 commits
\* cell 4); every other value commits the nearest cell, so the committed value is
\* at most gtp/2 from the live value on each axis.
C30_SnapHalfEven ==
    [][/\ (DragReleaseStep /\ far) =>
             /\ HalfEvenCell(widget'.x, LiveX) /\ HalfEvenCell(widget'.y, LiveY)
             /\ (gtp = 50 /\ LiveX = I(125)) => widget'.x = I(2 * 50)
             /\ (gtp = 50 /\ LiveY = I(175)) => widget'.y = I(4 * 50)
       /\ ResizeReleaseStep =>
             /\ HalfEvenCell(widget'.w, LiveW) /\ HalfEvenCell(widget'.h, LiveH)
             /\ (gtp = 50 /\ LiveW = I(175)) => widget'.w = I(4 * 50)
             /\ (gtp = 50 /\ LiveH = I(125)) => widget'.h = I(2 * 50)]_vars

\* released at a live position of (125,175): committed (100,200), cells 2 and 4
C30_Witness ==
    /\ last.op = "drag.on_release"
    /\ ngestures = 1
    /\ scaling = I(1) /\ dstate.scaling = I(1)
    /\ <<dstate.start_root_x, dstate.start_root_y>> = <<60, 60>>
    /\ <<dstate.start_w_x, dstate.start_w_y>> = <<I(50), I(50)>>
    /\ <<widget.x, widget.y>> = <<I(100), I(200)>>

=============================================================================
